---- MODULE Spec2Model ----
(***************************************************************************)
(* Model of sentiment_analyzer.py: the configuration resolver, the         *)
(* positivity decision policy, URL synthesis, source ingestion and the     *)
(* aggregation / report writer of main().                                  *)
(*                                                                         *)
(* Strings are sequences of characters.  A character is a one-character    *)
(* TLA+ string for ASCII; a Cyrillic letter is written "c:<name>" (lower   *)
(* case) or "C:<name>" (upper case), <name> its Latin transliteration,     *)
(* because the module text is ASCII.  Every string operator below works on *)
(* these sequences the way the Python builtin of the same name does.       *)
(***************************************************************************)
EXTENDS Integers, Sequences, FiniteSets, Bags, TLC

VARIABLES
  pc,                      \* position of the run, or of the call of a unit specification
  args,                    \* unit specifications: the arguments of the function applied
  ret,                     \* unit specifications: what the function returned
  oracle_log,              \* texts the tokenizer/model were invoked on, in call order
  start_environ,           \* os.environ when the process started (never changed)
  environ,                 \* os.environ
  env_file,                \* ./config.env: whether it exists, and its text
  cuda_available,          \* torch.cuda.is_available()
  config,                  \* the Config object
  dirs,                    \* per directory of INPUT_DIRS: is it a directory, how many *.json
  total_files_to_process,  \* main: files counted before the analysis
  processed_files,         \* main: files handed to process_json_file so far
  total_positive,          \* main: accepted comments counted so far
  comments_read,           \* iterations of the comment loop of process_json_file so far
  current,                 \* the call of process_json_file in progress
  grouped_positive_comments, \* main: directory -> accepted comments
  reports,                 \* directory -> the f.write calls made on its output file
  warnings,                \* files reported as unreadable
  accepted                 \* history: every comment is_positive_comment accepted, with its file

-----------------------------------------------------------------------------
(* Python string builtins *)

Min(S) == CHOOSE x \in S : \A y \in S : x <= y

\* s.find(sub) + 1: the 1-based index of the first occurrence of sub, 0 when none
Find(s, sub) ==
  LET hits == { i \in 1..(Len(s) - Len(sub) + 1) : SubSeq(s, i, i + Len(sub) - 1) = sub }
  IN  IF hits = {} THEN 0 ELSE Min(hits)

\* sub in s
Contains(s, sub) == Find(s, sub) # 0

\* s.split(sep): left-to-right, non-overlapping
RECURSIVE PySplit(_, _)
PySplit(s, sep) ==
  LET i == Find(s, sep)
  IN  IF i = 0 THEN << s >>
      ELSE << SubSeq(s, 1, i - 1) >> \o PySplit(SubSeq(s, i + Len(sep), Len(s)), sep)

\* s.split(sep, 1)
PySplit1(s, sep) ==
  LET i == Find(s, sep)
  IN  IF i = 0 THEN << s >>
      ELSE << SubSeq(s, 1, i - 1), SubSeq(s, i + Len(sep), Len(s)) >>

Last(q) == q[Len(q)]

\* s.rstrip(chars)
RECURSIVE RStrip(_, _)
RStrip(s, chars) ==
  IF s # << >> /\ s[Len(s)] \in chars THEN RStrip(SubSeq(s, 1, Len(s) - 1), chars) ELSE s

\* s.lstrip(chars)
RECURSIVE LStrip(_, _)
LStrip(s, chars) ==
  IF s # << >> /\ s[1] \in chars THEN LStrip(Tail(s), chars) ELSE s

\* s.strip(chars)
Strip(s, chars) == LStrip(RStrip(s, chars), chars)

\* the characters s.strip() removes
Whitespace == { " ", "\t", "\n", "\r" }

\* str.lower() of one character: ASCII and Cyrillic capitals map to their small
\* letters, every other character to itself
LowerChar(c) ==
  CASE c = "A" -> "a" [] c = "B" -> "b" [] c = "C" -> "c" [] c = "D" -> "d"
    [] c = "E" -> "e" [] c = "F" -> "f" [] c = "G" -> "g" [] c = "H" -> "h"
    [] c = "I" -> "i" [] c = "J" -> "j" [] c = "K" -> "k" [] c = "L" -> "l"
    [] c = "M" -> "m" [] c = "N" -> "n" [] c = "O" -> "o" [] c = "P" -> "p"
    [] c = "Q" -> "q" [] c = "R" -> "r" [] c = "S" -> "s" [] c = "T" -> "t"
    [] c = "U" -> "u" [] c = "V" -> "v" [] c = "W" -> "w" [] c = "X" -> "x"
    [] c = "Y" -> "y" [] c = "Z" -> "z"
    [] c = "C:a" -> "c:a" [] c = "C:b" -> "c:b" [] c = "C:v" -> "c:v"
    [] c = "C:g" -> "c:g" [] c = "C:d" -> "c:d" [] c = "C:e" -> "c:e"
    [] c = "C:zh" -> "c:zh" [] c = "C:z" -> "c:z" [] c = "C:i" -> "c:i"
    [] c = "C:j" -> "c:j" [] c = "C:k" -> "c:k" [] c = "C:l" -> "c:l"
    [] c = "C:m" -> "c:m" [] c = "C:n" -> "c:n" [] c = "C:o" -> "c:o"
    [] c = "C:p" -> "c:p" [] c = "C:r" -> "c:r" [] c = "C:s" -> "c:s"
    [] c = "C:t" -> "c:t" [] c = "C:u" -> "c:u" [] c = "C:f" -> "c:f"
    [] c = "C:h" -> "c:h" [] c = "C:c" -> "c:c" [] c = "C:ch" -> "c:ch"
    [] c = "C:sh" -> "c:sh" [] c = "C:sch" -> "c:sch" [] c = "C:hard" -> "c:hard"
    [] c = "C:y" -> "c:y" [] c = "C:soft" -> "c:soft" [] c = "C:eh" -> "c:eh"
    [] c = "C:yu" -> "c:yu" [] c = "C:ya" -> "c:ya"
    [] OTHER -> c

\* s.lower()
Lower(s) == [ i \in 1..Len(s) |-> LowerChar(s[i]) ]

Digit(n) == CASE n = 0 -> "0" [] n = 1 -> "1" [] n = 2 -> "2" [] n = 3 -> "3" [] n = 4 -> "4"
              [] n = 5 -> "5" [] n = 6 -> "6" [] n = 7 -> "7" [] n = 8 -> "8" [] n = 9 -> "9"

RECURSIVE NatToStr(_)
NatToStr(n) == IF n < 10 THEN << Digit(n) >> ELSE NatToStr(n \div 10) \o << Digit(n % 10) >>

\* str(n) of a Python int
IntToStr(n) == IF n < 0 THEN << "-" >> \o NatToStr(0 - n) ELSE NatToStr(n)

-----------------------------------------------------------------------------
(* JSON values of a comment record: a key is absent, null, a string or an int *)

JAbsent == [ kind |-> "absent", val |-> << >> ]
JNull == [ kind |-> "null", val |-> << >> ]
JStr(s) == [ kind |-> "str", val |-> s ]
JInt(n) == [ kind |-> "int", val |-> n ]

\* dict.get(key, default) on a field modelled as above
Get(field, default) == IF field.kind = "absent" THEN default ELSE field

\* str(x) of a JSON value
Str(x) ==
  CASE x.kind = "int" -> IntToStr(x.val)
    [] x.kind = "null" -> <<"N", "o", "n", "e">>
    [] OTHER -> x.val

-----------------------------------------------------------------------------
(* Configuration: os.environ is a function from keys to values, config.env  *)
(* a file that exists or not, with its text.                                *)

EmptyEnv == [ k \in {} |-> << >> ]

\* os.environ[key] = value
SetEnv(env, key, value) ==
  [ k \in DOMAIN env \cup { key } |-> IF k = key THEN value ELSE env[k] ]

\* os.getenv(key, default)
GetEnv(env, key, default) == IF key \in DOMAIN env THEN env[key] ELSE default

\* the body of the loop of load_env_file for one line of config.env
LoadEnvLine(env, rawline) ==
  LET line == Strip(rawline, Whitespace) IN
  IF line # << >> /\ line[1] # "#" /\ Contains(line, << "=" >>)
  THEN LET kv == PySplit1(line, << "=" >>)
           value == Strip(Strip(Strip(kv[2], Whitespace), { "\"" }), { "'" })
       IN  SetEnv(env, Strip(kv[1], Whitespace), value)
  ELSE env

RECURSIVE LoadEnvLines(_, _)
LoadEnvLines(env, lines) ==
  IF lines = << >> THEN env ELSE LoadEnvLines(LoadEnvLine(env, Head(lines)), Tail(lines))

\* Config.load_env_file: every key=value line of config.env is written into
\* os.environ; without the file os.environ is left as it is
load_env_file(env, file) ==
  IF file.exists THEN LoadEnvLines(env, PySplit(file.text, << "\n" >>)) ELSE env

DigitValue(c) ==
  CASE c = "0" -> 0 [] c = "1" -> 1 [] c = "2" -> 2 [] c = "3" -> 3 [] c = "4" -> 4
    [] c = "5" -> 5 [] c = "6" -> 6 [] c = "7" -> 7 [] c = "8" -> 8 [] c = "9" -> 9

Digits == { "0", "1", "2", "3", "4", "5", "6", "7", "8", "9" }

AllDigits(s) == \A i \in 1..Len(s) : s[i] \in Digits

RECURSIVE DigitsValue(_)
DigitsValue(s) ==
  IF s = << >> THEN 0 ELSE 10 * DigitsValue(SubSeq(s, 1, Len(s) - 1)) + DigitValue(s[Len(s)])

\* int(s): surrounding whitespace and a sign are accepted; anything else but
\* digits raises ValueError (ok = FALSE)
ParseInt(s) ==
  LET t == Strip(s, Whitespace)
      neg == t # << >> /\ t[1] = "-"
      body == IF t # << >> /\ t[1] \in { "-", "+" } THEN Tail(t) ELSE t
  IN  IF body # << >> /\ AllDigits(body)
      THEN [ ok |-> TRUE, val |-> IF neg THEN 0 - DigitsValue(body) ELSE DigitsValue(body) ]
      ELSE [ ok |-> FALSE, val |-> 0 ]

\* Floats (POSITIVE_THRESHOLD, the scores of the model) are kept in hundredths.
Hundredths == 100

\* float(s) for the decimal forms 'd', 'd.d' and 'd.dd', in hundredths; any
\* other text of the inputs of this model raises ValueError (ok = FALSE)
ParseFloat(s) ==
  LET t == Strip(s, Whitespace)
      parts == PySplit1(t, << "." >>)
      whole == parts[1]
      frac == IF Len(parts) = 2 THEN parts[2] ELSE << >>
      frac2 == IF Len(frac) = 0 THEN << "0", "0" >>
               ELSE IF Len(frac) = 1 THEN frac \o << "0" >> ELSE frac
  IN  IF whole # << >> /\ AllDigits(whole) /\ AllDigits(frac) /\ Len(frac) <= 2
      THEN [ ok |-> TRUE, val |-> Hundredths * DigitsValue(whole) + DigitsValue(frac2) ]
      ELSE [ ok |-> FALSE, val |-> 0 ]

\* the set comprehension of Config.__init__ that builds EXCLUDE_AUTHORS
ExcludeAuthors(exclude_env) ==
  LET exclude_str == Strip(Strip(exclude_env, { "\"" }), { "'" })
      pieces == PySplit(exclude_str, << "," >>)
  IN  { Strip(pieces[i], Whitespace) : i \in 1..Len(pieces) } \ { << >> }

\* Config.__init__ after load_env_file: the settings read from os.environ, a
\* default for every key that is not set.  ok = FALSE: float() or int() raised.
ConfigFromEnv(env, has_cuda) ==
  LET threshold == ParseFloat(GetEnv(env, (* 'POSITIVE_THRESHOLD' *) <<"P", "O", "S", "I", "T", "I", "V", "E", "_", "T", "H", "R", "E", "S", "H", "O", "L", "D">>, << "1", ".", "0" >>))
      min_length == ParseInt(GetEnv(env, (* 'MIN_COMMENT_LENGTH' *) <<"M", "I", "N", "_", "C", "O", "M", "M", "E", "N", "T", "_", "L", "E", "N", "G", "T", "H">>, << "2", "0" >>))
      max_tokens == ParseInt(GetEnv(env, (* 'MAX_TOKEN_LENGTH' *) <<"M", "A", "X", "_", "T", "O", "K", "E", "N", "_", "L", "E", "N", "G", "T", "H">>, << "5", "1", "2" >>))
  IN  [ ok |-> threshold.ok /\ min_length.ok /\ max_tokens.ok,
        MODEL_NAME |-> GetEnv(env, <<"M", "O", "D", "E", "L", "_", "N", "A", "M", "E">>,
                         (* 'cointegrated/rubert-tiny-sentiment-balanced' *) <<"c", "o", "i", "n", "t", "e", "g", "r", "a", "t", "e", "d", "/", "r", "u", "b", "e", "r", "t", "-", "t", "i", "n", "y", "-", "s", "e", "n", "t", "i", "m", "e", "n", "t", "-", "b", "a", "l", "a", "n", "c", "e", "d">>),
        DEVICE |-> GetEnv(env, <<"D", "E", "V", "I", "C", "E">>,
                     IF has_cuda THEN << "c", "u", "d", "a" >> ELSE << "c", "p", "u" >>),
        POSITIVE_THRESHOLD |-> threshold.val,
        EXCLUDE_AUTHORS |-> ExcludeAuthors(GetEnv(env, (* 'EXCLUDE_AUTHORS' *) <<"E", "X", "C", "L", "U", "D", "E", "_", "A", "U", "T", "H", "O", "R", "S">>,
                              (* 'empenoso,Михаил Шардин' *) <<"e", "m", "p", "e", "n", "o", "s", "o", ",", "C:m", "c:i", "c:h", "c:a", "c:i", "c:l", " ", "C:sh", "c:a", "c:r", "c:d", "c:i", "c:n">>)),
        MIN_COMMENT_LENGTH |-> min_length.val,
        MAX_TOKEN_LENGTH |-> max_tokens.val ]

-----------------------------------------------------------------------------
(* Positivity decision policy *)

praise_keywords ==
  << <<"c:s", "c:p", "c:a", "c:s", "c:i", "c:b", "c:o">>,
     <<"c:b", "c:l", "c:a", "c:g", "c:o", "c:d", "c:a", "c:r", "c:yu">>,
     <<"c:o", "c:t", "c:l", "c:i", "c:ch", "c:n", "c:o">>,
     <<"c:p", "c:r", "c:e", "c:k", "c:r", "c:a", "c:s", "c:n", "c:o">>,
     <<"c:z", "c:a", "c:m", "c:e", "c:ch", "c:a", "c:t", "c:e", "c:l", "c:soft", "c:n", "c:o">>,
     <<"c:v", "c:e", "c:l", "c:i", "c:k", "c:o", "c:l", "c:e", "c:p", "c:n", "c:o">>,
     <<"c:h", "c:o", "c:r", "c:o", "c:sh", "c:o">>,
     <<"c:m", "c:o", "c:l", "c:o", "c:d", "c:e", "c:c">>,
     <<"c:b", "c:r", "c:a", "c:v", "c:o">>,
     <<"c:s", "c:u", "c:p", "c:e", "c:r">>,
     <<"c:k", "c:l", "c:a", "c:s", "c:s">>,
     <<"c:k", "c:r", "c:u", "c:t", "c:o">>,
     <<"c:v", "c:o", "c:s", "c:h", "c:i", "c:sch", "c:e", "c:n">>,
     <<"c:v", "c:p", "c:e", "c:ch", "c:a", "c:t", "c:l", "c:e", "c:n">>,
     <<"c:p", "c:o", "c:l", "c:e", "c:z", "c:n", "c:o">>,
     <<"c:p", "c:o", "c:m", "c:o", "c:g", "c:l", "c:o">>,
     <<"c:o", "c:t", "c:l", "c:i", "c:ch", "c:n", "c:a", "c:ya", " ", "c:s", "c:t", "c:a", "c:t", "c:soft", "c:ya">>,
     <<"c:h", "c:o", "c:r", "c:o", "c:sh", "c:a", "c:ya", " ", "c:r", "c:a", "c:b", "c:o", "c:t", "c:a">> >>

\* id2label of the model: negative, neutral, positive
id2label == << "negative", "neutral", "positive" >>

\* proba.argmax(): the first index of the largest score (1-based here)
Argmax(proba) ==
  Min({ i \in 1..Len(proba) : \A j \in 1..Len(proba) : proba[j] <= proba[i] })

\* is_positive_comment with the threshold compared by > instead of >=
is_positive_comment_strict(cfg, text, author, proba) ==
  IF author \in cfg.EXCLUDE_AUTHORS
  THEN [ result |-> FALSE, oracle_calls |-> << >> ]
  ELSE IF Len(text) < cfg.MIN_COMMENT_LENGTH
  THEN [ result |-> FALSE, oracle_calls |-> << >> ]
  ELSE LET label == id2label[Argmax(proba)]
           lowered == Lower(text)
       IN  [ result |->
               \/ label = "positive" /\ proba[3] > cfg.POSITIVE_THRESHOLD
               \/ /\ label = "neutral"
                  /\ \E k \in 1..Len(praise_keywords) : Contains(lowered, praise_keywords[k]),
             oracle_calls |-> << text >> ]

\* is_positive_comment with the model invoked before the length check
is_positive_comment_oracle_first(cfg, text, author, proba) ==
  IF author \in cfg.EXCLUDE_AUTHORS
  THEN [ result |-> FALSE, oracle_calls |-> << >> ]
  ELSE LET label == id2label[Argmax(proba)]
           lowered == Lower(text)
       IN  [ result |->
               /\ Len(text) >= cfg.MIN_COMMENT_LENGTH
               /\ \/ label = "positive" /\ proba[3] >= cfg.POSITIVE_THRESHOLD
                  \/ /\ label = "neutral"
                     /\ \E k \in 1..Len(praise_keywords) :
                          Contains(lowered, praise_keywords[k]),
             oracle_calls |-> << text >> ]

\* SentimentAnalyzer.is_positive_comment.  proba is what the tokenizer and the
\* model return for text when they are invoked; oracle_calls lists the texts
\* they were invoked on by this call.
is_positive_comment(cfg, text, author, proba) ==
  IF author \in cfg.EXCLUDE_AUTHORS
  THEN [ result |-> FALSE, oracle_calls |-> << >> ]
  ELSE IF Len(text) < cfg.MIN_COMMENT_LENGTH
  THEN [ result |-> FALSE, oracle_calls |-> << >> ]
  ELSE LET label == id2label[Argmax(proba)]
           lowered == Lower(text)
       IN  [ result |->
               \/ label = "positive" /\ proba[3] >= cfg.POSITIVE_THRESHOLD
               \/ /\ label = "neutral"
                  /\ \E k \in 1..Len(praise_keywords) : Contains(lowered, praise_keywords[k]),
             oracle_calls |-> << text >> ]

-----------------------------------------------------------------------------
(* URL synthesis *)

get_comment_url(directory_name, article_url, comment_id) ==
  LET dn == Lower(directory_name) IN
  IF Contains(dn, <<"h", "a", "b", "r">>)
  THEN IF Contains(article_url, <<"h", "a", "b", "r", ".", "c", "o", "m">>)
       THEN LET article_id == PySplit(Last(PySplit(article_url, <<"/", "a", "r", "t", "i", "c", "l", "e", "s", "/">>)), << "/" >>)[1]
            IN  
              (* 'https://habr.com/ru/articles/' *) <<"h", "t", "t", "p", "s", ":", "/", "/", "h", "a", "b", "r", ".", "c", "o", "m", "/", "r", "u", "/", "a", "r", "t", "i", "c", "l", "e", "s", "/">>
                  \o article_id \o 
              (* '/comments/#comment_' *) <<"/", "c", "o", "m", "m", "e", "n", "t", "s", "/", "#", "c", "o", "m", "m", "e", "n", "t", "_">>
                  \o comment_id
       ELSE 
              (* 'Unknown Habr URL: ' *) <<"U", "n", "k", "n", "o", "w", "n", " ", "H", "a", "b", "r", " ", "U", "R", "L", ":", " ">> \o article_url
  ELSE IF Contains(dn, <<"s", "m", "a", "r", "t", "-", "l", "a", "b">>)
  THEN IF Contains(article_url, <<"s", "m", "a", "r", "t", "-", "l", "a", "b", ".", "r", "u">>)
       THEN LET article_id == PySplit(Last(PySplit(article_url, <<"/", "b", "l", "o", "g", "/">>)), <<".", "p", "h", "p">>)[1]
            IN  
              (* 'https://smart-lab.ru/blog/' *) <<"h", "t", "t", "p", "s", ":", "/", "/", "s", "m", "a", "r", "t", "-", "l", "a", "b", ".", "r", "u", "/", "b", "l", "o", "g", "/">>
                  \o article_id \o <<".", "p", "h", "p", "#", "c", "o", "m", "m", "e", "n", "t">> \o comment_id
       ELSE 
              (* 'Unknown Smart-Lab URL: ' *) <<"U", "n", "k", "n", "o", "w", "n", " ", "S", "m", "a", "r", "t", "-", "L", "a", "b", " ", "U", "R", "L", ":", " ">> \o article_url
  ELSE IF Contains(dn, <<"t", "-", "j">>) \/ Contains(dn, <<"t", "j">>)
  THEN IF article_url # << >>
       THEN LET base_url == PySplit(RStrip(article_url, { "/" }), << "#" >>)[1]
            IN  base_url \o <<"/", "#", "c">> \o comment_id
       ELSE 
              (* 'Unknown TJ URL (comment: ' *) <<"U", "n", "k", "n", "o", "w", "n", " ", "T", "J", " ", "U", "R", "L", " ", "(", "c", "o", "m", "m", "e", "n", "t", ":", " ">>
              \o comment_id \o << ")" >>
  ELSE 
              (* 'Unknown source (url: ' *) <<"U", "n", "k", "n", "o", "w", "n", " ", "s", "o", "u", "r", "c", "e", " ", "(", "u", "r", "l", ":", " ">>
         \o article_url \o <<",", " ", "c", "o", "m", "m", "e", "n", "t", ":", " ">> \o comment_id \o << ")" >>

-----------------------------------------------------------------------------
(* Aggregation and report writer *)

\* the key of comments.sort: c.get('id') if c.get('id') is not None else 0
SortKey(c) == IF c.id.kind = "int" THEN c.id.val ELSE 0

\* InsertSorted with c put before the elements of equal key (not stable)
InsertSorted_unstable(sorted, c) ==
  LET after == { i \in 1..Len(sorted) : SortKey(sorted[i]) < SortKey(c) }
      n == IF after = {} THEN 0 ELSE CHOOSE i \in after : \A j \in after : j <= i
  IN  SubSeq(sorted, 1, n) \o << c >> \o SubSeq(sorted, n + 1, Len(sorted))

\* one insertion of list.sort (a stable insertion sort on short lists): c goes
\* after every element whose key is not larger
InsertSorted(sorted, c) ==
  LET after == { i \in 1..Len(sorted) : SortKey(sorted[i]) <= SortKey(c) }
      n == IF after = {} THEN 0 ELSE CHOOSE i \in after : \A j \in after : j <= i
  IN  SubSeq(sorted, 1, n) \o << c >> \o SubSeq(sorted, n + 1, Len(sorted))

RECURSIVE SortFrom(_, _)
SortFrom(sorted, rest) ==
  IF rest = << >> THEN sorted ELSE SortFrom(InsertSorted(sorted, Head(rest)), Tail(rest))

\* comments.sort(key=...)
SortById(comments) == SortFrom(<< >>, comments)

\* the width of the separator line
SeparatorWidth == 100

\* "=" * 100 + "\n"
Separator == [ i \in 1..SeparatorWidth |-> "=" ] \o << "\n" >>

\* the four f.write calls of one comment
BlockWrites(comment) ==
  LET author == Str(Get(comment.author, JStr((* 'Неизвестный автор' *) <<"C:n", "c:e", "c:i", "c:z", "c:v", "c:e", "c:s", "c:t", "c:n", "c:y", "c:j", " ", "c:a", "c:v", "c:t", "c:o", "c:r">>)))
      datetime == Str(Get(comment.datetime, JStr((* 'Дата неизвестна' *) <<"C:d", "c:a", "c:t", "c:a", " ", "c:n", "c:e", "c:i", "c:z", "c:v", "c:e", "c:s", "c:t", "c:n", "c:a">>)))
      text == Str(Get(comment.text, JStr(<< >>)))
      comment_id == Str(Get(comment.id, JStr(<<"u", "n", "k", "n", "o", "w", "n">>)))
      comment_url == get_comment_url(comment.directory_name, comment.article_url, comment_id)
  IN  << <<"C:a", "c:v", "c:t", "c:o", "c:r", ":", " ">> \o author \o << "\n" >>,
         <<"C:d", "c:a", "c:t", "c:a", ":", " ">> \o datetime \o << "\n" >>,
         <<"C:t", "c:e", "c:k", "c:s", "c:t", ":", " ">> \o text \o << "\n" >>,
         <<"C:s", "c:s", "c:y", "c:l", "c:k", "c:a", ":", " ">> \o comment_url \o << "\n" >> >>

\* SeparatorAfter with the separator written after the last comment too
SeparatorAfter_every(idx, count) == idx < count

\* whether the separator is written after the comment at 0-based index idx
SeparatorAfter(idx, count) == idx < count - 1

\* the f.write calls of the loop over the sorted comments of one directory
RECURSIVE WritesFrom(_, _)
WritesFrom(comments, idx) ==
  IF idx >= Len(comments) THEN << >>
  ELSE BlockWrites(comments[idx + 1])
         \o (IF SeparatorAfter(idx, Len(comments)) THEN << Separator >> ELSE << >>)
         \o WritesFrom(comments, idx + 1)

ReportWrites(comments) == WritesFrom(comments, 0)

-----------------------------------------------------------------------------
(* Source ingestion and the main loop *)

\* INPUT_DIRS, by position
INPUT_DIRS == << (* 'habr_comments' *) <<"h", "a", "b", "r", "_", "c", "o", "m", "m", "e", "n", "t", "s">>, (* 'smart-lab_comments' *) <<"s", "m", "a", "r", "t", "-", "l", "a", "b", "_", "c", "o", "m", "m", "e", "n", "t", "s">>, <<"t", "-", "j", "_", "c", "o", "m", "m", "e", "n", "t", "s">> >>

DirIds == 1..Len(INPUT_DIRS)

\* json files of the directories before directory d, and up to it
FilesBefore(d) == IF d = 1 THEN 0 ELSE IF d = 2 THEN dirs[1].n_json ELSE dirs[1].n_json + dirs[2].n_json
FilesUpTo(d) == FilesBefore(d) + dirs[d].n_json

\* the directory whose glob yields the k-th file the main loop processes
DirOfFile(k) == Min({ d \in DirIds : FilesUpTo(d) >= k })

NotOpen == [ open |-> FALSE, directory |-> 0, article_url |-> << >>, left |-> 0,
             positive_comments |-> << >> ]

\* Extend without the `if positive_comments` test: the defaultdict makes an
\* entry for a directory whose file yields nothing
Extend_unguarded(grouped, d, positive_comments) ==
  [ e \in DOMAIN grouped \cup { d } |->
      IF e = d
      THEN (IF d \in DOMAIN grouped THEN grouped[d] ELSE << >>) \o positive_comments
      ELSE grouped[e] ]

\* Extend with the list of the directory assigned instead of extended
Extend_assign(grouped, d, positive_comments) ==
  IF positive_comments # << >>
  THEN [ e \in DOMAIN grouped \cup { d } |-> IF e = d THEN positive_comments ELSE grouped[e] ]
  ELSE grouped

\* main, after process_json_file returned positive_comments for a file of
\* directory d: if positive_comments: grouped[d].extend(...)
Extend(grouped, d, positive_comments) ==
  IF positive_comments # << >>
  THEN [ e \in DOMAIN grouped \cup { d } |->
           IF e = d
           THEN (IF d \in DOMAIN grouped THEN grouped[d] ELSE << >>) \o positive_comments
           ELSE grouped[e] ]
  ELSE grouped

\* the comment as process_json_file stores it once accepted
Tagged(comment, article_url, directory_name) ==
  [ id |-> comment.id, author |-> comment.author, text |-> comment.text,
    datetime |-> comment.datetime, article_url |-> article_url,
    directory_name |-> directory_name ]

\* `not x` of a field read with .get(key, '')
Falsy(field) == field.kind \in { "absent", "null" } \/ field.val = << >>

-----------------------------------------------------------------------------
(* Bounds of the model *)

\* json files in all input directories together
MaxFiles == 2

\* comments read in one run, all files together
MaxComments == 2

\* accepted comments of the directory in the report specification
MaxReport == 4

-----------------------------------------------------------------------------
(* Inputs *)

NoValue == << "no value" >>

NoConfig == [ ok |-> FALSE ]
NoFile == [ exists |-> FALSE, text |-> << >> ]
EmptyMap == [ d \in {} |-> << >> ]

DefaultConfig == ConfigFromEnv(EmptyEnv, FALSE)

\* the three input directories: each is missing or holds some json files
DirStates ==
  { ds \in [ DirIds -> [ is_dir : BOOLEAN, n_json : 0..MaxFiles ] ] :
      /\ \A d \in DirIds : ~ds[d].is_dir => ds[d].n_json = 0
      /\ ds[1].n_json + ds[2].n_json + ds[3].n_json <= MaxFiles }

\* the 'url' of a json file (absent: '')
FileUrls ==
  { (* 'https://habr.com/ru/articles/12345/' *) <<"h", "t", "t", "p", "s", ":", "/", "/", "h", "a", "b", "r", ".", "c", "o", "m", "/", "r", "u", "/", "a", "r", "t", "i", "c", "l", "e", "s", "/", "1", "2", "3", "4", "5", "/">>, << >> }

PraiseText == (* 'Спасибо, отличная статья!' *) <<"C:s", "c:p", "c:a", "c:s", "c:i", "c:b", "c:o", ",", " ", "c:o", "c:t", "c:l", "c:i", "c:ch", "c:n", "c:a", "c:ya", " ", "c:s", "c:t", "c:a", "c:t", "c:soft", "c:ya", "!">>
PlainText == (* 'Не согласен с автором статьи' *) <<"C:n", "c:e", " ", "c:s", "c:o", "c:g", "c:l", "c:a", "c:s", "c:e", "c:n", " ", "c:s", " ", "c:a", "c:v", "c:t", "c:o", "c:r", "c:o", "c:m", " ", "c:s", "c:t", "c:a", "c:t", "c:soft", "c:i">>
ShortText == <<"C:s", "c:u", "c:p", "c:e", "c:r", "!">>

\* entries of the 'comments' list of a json file
CommentObjects ==
  { [ id |-> JInt(5), author |-> JStr(<<"r", "e", "a", "d", "e", "r">>), text |-> JStr(PraiseText),
      datetime |-> JStr(<<"2", "0", "2", "5", "-", "1", "0", "-", "0", "1">>) ],
    [ id |-> JNull, author |-> JStr(<<"r", "e", "a", "d", "e", "r">>), text |-> JStr(PlainText),
      datetime |-> JAbsent ],
    [ id |-> JInt(2), author |-> JStr(<<"e", "m", "p", "e", "n", "o", "s", "o">>), text |-> JStr(PraiseText),
      datetime |-> JStr(<<"2", "0", "2", "5", "-", "1", "0", "-", "0", "1">>) ],
    [ id |-> JInt(2), author |-> JAbsent, text |-> JStr(PraiseText),
      datetime |-> JStr(<<"2", "0", "2", "5", "-", "1", "0", "-", "0", "1">>) ],
    [ id |-> JAbsent, author |-> JStr(<<"r", "e", "a", "d", "e", "r">>), text |-> JStr(ShortText),
      datetime |-> JStr(<<"2", "0", "2", "5", "-", "1", "0", "-", "0", "1">>) ] }

\* an entry of 'comments' that is not a JSON object (a string)
NotAnObject == [ id |-> JAbsent, author |-> JAbsent, text |-> JAbsent,
                 datetime |-> JAbsent, not_object |-> TRUE ]

IsObject(entry) == "not_object" \notin DOMAIN entry

\* score vectors of the model (negative, neutral, positive), in hundredths
MainProbas == { << 0, 0, 100 >>, << 10, 90, 20 >>, << 90, 10, 5 >> }

\* what json.load makes of a file: it raises, returns a value that is not an
\* object, or returns an object
FileKinds == { "unreadable", "not_object", "object" }

-----------------------------------------------------------------------------
(* The run of main() *)

cfgVars == << start_environ, environ, env_file, cuda_available, config >>
unitVars == << args, ret >>
loopVars == << total_files_to_process, processed_files, total_positive, comments_read,
               current, grouped_positive_comments, warnings, accepted >>
vars == << pc, args, ret, oracle_log, start_environ, environ, env_file, cuda_available,
           config, dirs, total_files_to_process, processed_files, total_positive,
           comments_read, current, grouped_positive_comments, reports, warnings, accepted >>

InitLoop ==
  /\ total_files_to_process = 0
  /\ processed_files = 0
  /\ total_positive = 0
  /\ comments_read = 0
  /\ current = NotOpen
  /\ grouped_positive_comments = EmptyMap
  /\ reports = EmptyMap
  /\ warnings = 0
  /\ accepted = << >>

Init ==
  /\ pc = "start"
  /\ args = NoValue
  /\ ret = NoValue
  /\ oracle_log = << >>
  /\ start_environ = EmptyEnv
  /\ environ = start_environ
  /\ env_file = NoFile
  /\ cuda_available = FALSE
  /\ config = NoConfig
  /\ dirs \in DirStates
  /\ InitLoop

\* Config(): load_env_file, then the settings from os.environ; a float() or
\* int() that raises ends the run with exit code 1
ConfigInit ==
  /\ pc = "start"
  /\ LET env == load_env_file(environ, env_file)
         c == ConfigFromEnv(env, cuda_available)
     IN  /\ environ' = env
         /\ config' = (IF c.ok THEN c ELSE config)
         /\ pc' = (IF c.ok THEN "configured" ELSE "exit1")
  /\ UNCHANGED << unitVars, oracle_log, start_environ, env_file, cuda_available, dirs,
                  loopVars, reports >>

\* main: the files are counted (no file: exit 1), then the model is loaded
\* (a failure: exit 1; load_model sets DEVICE to 'cpu' unless cuda is used)
Scan ==
  /\ pc = "configured"
  /\ LET total == dirs[1].n_json + dirs[2].n_json + dirs[3].n_json IN
     /\ total_files_to_process' = total
     /\ IF total = 0
        THEN pc' = "exit1" /\ UNCHANGED config
        ELSE \E model_loaded \in BOOLEAN :
               IF model_loaded
               THEN /\ pc' = "process"
                    /\ config' = (IF config.DEVICE = <<"c", "u", "d", "a">> /\ cuda_available
                                  THEN config
                                  ELSE [ config EXCEPT !.DEVICE = <<"c", "p", "u">> ])
               ELSE pc' = "exit1" /\ UNCHANGED config
  /\ UNCHANGED << unitVars, oracle_log, start_environ, environ, env_file, cuda_available,
                  dirs, processed_files, total_positive, comments_read, current,
                  grouped_positive_comments, warnings, accepted, reports >>

\* what main does with the positive_comments a call of process_json_file
\* returned for a file of directory d, and where the loop goes next
ReturnToMain(d, positive_comments, processed) ==
  /\ grouped_positive_comments' = Extend(grouped_positive_comments, d, positive_comments)
  /\ total_positive' = (IF positive_comments # << >>
                        THEN total_positive + Len(positive_comments) ELSE total_positive)
  /\ current' = NotOpen
  /\ pc' = (IF processed < total_files_to_process THEN "process" ELSE "save")

\* main takes the next file; process_json_file reads it.  An unreadable or
\* malformed file is reported and yields []; data.get on a value that is not
\* an object raises AttributeError, which nothing in the loop catches.
OpenFile ==
  /\ pc = "process"
  /\ processed_files' = processed_files + 1
  /\ LET d == DirOfFile(processed_files + 1) IN
     \E kind \in FileKinds, url \in FileUrls, n \in 0..(MaxComments - comments_read) :
       CASE kind = "unreadable" ->
              /\ warnings' = warnings + 1
              /\ ReturnToMain(d, << >>, processed_files + 1)
         [] kind = "not_object" ->
              /\ pc' = "crashed"
              /\ UNCHANGED << warnings, current, grouped_positive_comments, total_positive >>
         [] kind = "object" /\ n = 0 ->
              /\ ReturnToMain(d, << >>, processed_files + 1)
              /\ UNCHANGED warnings
         [] OTHER ->
              /\ current' = [ open |-> TRUE, directory |-> d, article_url |-> url,
                              left |-> n, positive_comments |-> << >> ]
              /\ pc' = "in_file"
              /\ UNCHANGED << warnings, grouped_positive_comments, total_positive >>
  /\ UNCHANGED << unitVars, oracle_log, cfgVars, dirs, total_files_to_process,
                  comments_read, accepted, reports >>

\* one iteration of the loop over the comments of the open file; after the
\* last one process_json_file returns to main
ProcessComment ==
  /\ pc = "in_file"
  /\ comments_read' = comments_read + 1
  /\ \E entry \in CommentObjects \cup { NotAnObject }, proba \in MainProbas :
       IF ~IsObject(entry)
       THEN /\ pc' = "crashed"
            /\ UNCHANGED << oracle_log, current, grouped_positive_comments, total_positive,
                            accepted >>
       ELSE LET text == Get(entry.text, JStr(<< >>))
                author == Get(entry.author, JStr(<< >>))
                skipped == Falsy(text) \/ Falsy(author)
                verdict == IF skipped THEN [ result |-> FALSE, oracle_calls |-> << >> ]
                           ELSE is_positive_comment(config, text.val, author.val, proba)
                tagged == Tagged(entry, current.article_url, INPUT_DIRS[current.directory])
                positive == IF verdict.result
                            THEN Append(current.positive_comments, tagged)
                            ELSE current.positive_comments
            IN  /\ oracle_log' = oracle_log \o verdict.oracle_calls
                /\ accepted' = (IF ~skipped /\ verdict.result
                                THEN Append(accepted, [ directory |-> current.directory,
                                                        article_url |-> current.article_url,
                                                        comment |-> entry ])
                                ELSE accepted)
                /\ IF current.left = 1
                   THEN ReturnToMain(current.directory, positive, processed_files)
                   ELSE /\ current' = [ current EXCEPT !.left = current.left - 1,
                                                       !.positive_comments = positive ]
                        /\ UNCHANGED << pc, grouped_positive_comments, total_positive >>
  /\ UNCHANGED << unitVars, cfgVars, dirs, total_files_to_process, processed_files,
                  warnings, reports >>

\* main, saving: nothing is written when no directory has accepted comments;
\* else every directory of the mapping has its comments sorted and written
SaveResults ==
  /\ pc = "save"
  /\ grouped_positive_comments' =
       [ d \in DOMAIN grouped_positive_comments |-> SortById(grouped_positive_comments[d]) ]
  /\ reports' =
       [ d \in DOMAIN grouped_positive_comments |->
           ReportWrites(SortById(grouped_positive_comments[d])) ]
  /\ pc' = "done"
  /\ UNCHANGED << unitVars, oracle_log, cfgVars, dirs, total_files_to_process,
                  processed_files, total_positive, comments_read, current, warnings,
                  accepted >>

Next == ConfigInit \/ Scan \/ OpenFile \/ ProcessComment \/ SaveResults

Spec == Init /\ [][Next]_vars

-----------------------------------------------------------------------------
(* Unit specifications: Init draws the inputs of one function or of one     *)
(* phase of main from bounded sets, the action applies it.                  *)

NoDirs == [ d \in DirIds |-> [ is_dir |-> FALSE, n_json |-> 0 ] ]

\* a process that has not started main's loop, with the default settings
IdleProcess ==
  /\ oracle_log = << >>
  /\ start_environ = EmptyEnv
  /\ environ = EmptyEnv
  /\ env_file = NoFile
  /\ cuda_available = FALSE
  /\ dirs = NoDirs
  /\ InitLoop

(* get_comment_url *)

\* directory names: the three of INPUT_DIRS, an upper-case one, an unknown one
UrlDirectoryNames ==
  { (* 'habr_comments' *) <<"h", "a", "b", "r", "_", "c", "o", "m", "m", "e", "n", "t", "s">>, (* 'smart-lab_comments' *) <<"s", "m", "a", "r", "t", "-", "l", "a", "b", "_", "c", "o", "m", "m", "e", "n", "t", "s">>, <<"t", "-", "j", "_", "c", "o", "m", "m", "e", "n", "t", "s">>, <<"T", "J", "_", "d", "u", "m", "p">>, <<"u", "n", "k", "n", "o", "w", "n", "_", "s", "r", "c">> }

UrlArticleUrls ==
  { (* 'https://habr.com/ru/articles/12345/' *) <<"h", "t", "t", "p", "s", ":", "/", "/", "h", "a", "b", "r", ".", "c", "o", "m", "/", "r", "u", "/", "a", "r", "t", "i", "c", "l", "e", "s", "/", "1", "2", "3", "4", "5", "/">>,
    (* 'https://habr.com/ru/post/12345/' *) <<"h", "t", "t", "p", "s", ":", "/", "/", "h", "a", "b", "r", ".", "c", "o", "m", "/", "r", "u", "/", "p", "o", "s", "t", "/", "1", "2", "3", "4", "5", "/">>,
    (* 'https://example.com/articles/7/' *) <<"h", "t", "t", "p", "s", ":", "/", "/", "e", "x", "a", "m", "p", "l", "e", ".", "c", "o", "m", "/", "a", "r", "t", "i", "c", "l", "e", "s", "/", "7", "/">>,
    (* 'https://smart-lab.ru/blog/67890.php' *) <<"h", "t", "t", "p", "s", ":", "/", "/", "s", "m", "a", "r", "t", "-", "l", "a", "b", ".", "r", "u", "/", "b", "l", "o", "g", "/", "6", "7", "8", "9", "0", ".", "p", "h", "p">>,
    (* 'https://smart-lab.ru/forum/1' *) <<"h", "t", "t", "p", "s", ":", "/", "/", "s", "m", "a", "r", "t", "-", "l", "a", "b", ".", "r", "u", "/", "f", "o", "r", "u", "m", "/", "1">>,
    (* 'https://example.com/article/#section' *) <<"h", "t", "t", "p", "s", ":", "/", "/", "e", "x", "a", "m", "p", "l", "e", ".", "c", "o", "m", "/", "a", "r", "t", "i", "c", "l", "e", "/", "#", "s", "e", "c", "t", "i", "o", "n">>,
    (* 'https://example.com/article/' *) <<"h", "t", "t", "p", "s", ":", "/", "/", "e", "x", "a", "m", "p", "l", "e", ".", "c", "o", "m", "/", "a", "r", "t", "i", "c", "l", "e", "/">>,
    (* 'https://example.com/article' *) <<"h", "t", "t", "p", "s", ":", "/", "/", "e", "x", "a", "m", "p", "l", "e", ".", "c", "o", "m", "/", "a", "r", "t", "i", "c", "l", "e">>,
    <<"h", "t", "t", "p", ":", "/", "/", "x">>,
    << >> }

\* str(comment_id)
UrlCommentIds == { <<"3">>, <<"9", "9">>, <<"N", "o", "n", "e">>, <<"u", "n", "k", "n", "o", "w", "n">> }

InitUrl ==
  /\ pc = "call_url"
  /\ args \in [ directory_name : UrlDirectoryNames, article_url : UrlArticleUrls,
                comment_id : UrlCommentIds ]
  /\ ret = NoValue
  /\ config = DefaultConfig
  /\ IdleProcess

GetCommentUrl ==
  /\ pc = "call_url"
  /\ ret' = get_comment_url(args.directory_name, args.article_url, args.comment_id)
  /\ pc' = "returned"
  /\ UNCHANGED << args, oracle_log, cfgVars, dirs, loopVars, reports >>

SpecUrl == InitUrl /\ [][GetCommentUrl]_vars

(* SentimentAnalyzer.is_positive_comment *)

Unset == << "unset" >>

EnvWith(env, key, value) == IF value = Unset THEN env ELSE SetEnv(env, key, value)

\* the settings of three environments: the defaults; a lower threshold and
\* minimum length; no excluded author, no minimum length and threshold 0
PolicyConfigs ==
  { DefaultConfig,
    ConfigFromEnv(SetEnv(SetEnv(EmptyEnv, (* 'MIN_COMMENT_LENGTH' *) <<"M", "I", "N", "_", "C", "O", "M", "M", "E", "N", "T", "_", "L", "E", "N", "G", "T", "H">>, <<"5">>),
                         (* 'POSITIVE_THRESHOLD' *) <<"P", "O", "S", "I", "T", "I", "V", "E", "_", "T", "H", "R", "E", "S", "H", "O", "L", "D">>, <<"0", ".", "5">>), FALSE),
    ConfigFromEnv(SetEnv(SetEnv(SetEnv(EmptyEnv, (* 'MIN_COMMENT_LENGTH' *) <<"M", "I", "N", "_", "C", "O", "M", "M", "E", "N", "T", "_", "L", "E", "N", "G", "T", "H">>, <<"0">>),
                                (* 'POSITIVE_THRESHOLD' *) <<"P", "O", "S", "I", "T", "I", "V", "E", "_", "T", "H", "R", "E", "S", "H", "O", "L", "D">>, <<"0">>),
                         (* 'EXCLUDE_AUTHORS' *) <<"E", "X", "C", "L", "U", "D", "E", "_", "A", "U", "T", "H", "O", "R", "S">>, << >>), FALSE) }

PolicyTexts ==
  { << >>,
    <<"o", "k">>,
    <<"C:k", "c:l", "c:a", "c:s", "c:s", "!">>,
    (* 'Спасибо за статью!' *) <<"C:s", "c:p", "c:a", "c:s", "c:i", "c:b", "c:o", " ", "c:z", "c:a", " ", "c:s", "c:t", "c:a", "c:t", "c:soft", "c:yu", "!">>,
    (* 'СПАСИБО, очень понятно написано' *) <<"C:s", "C:p", "C:a", "C:s", "C:i", "C:b", "C:o", ",", " ", "c:o", "c:ch", "c:e", "c:n", "c:soft", " ", "c:p", "c:o", "c:n", "c:ya", "c:t", "c:n", "c:o", " ", "c:n", "c:a", "c:p", "c:i", "c:s", "c:a", "c:n", "c:o">>,
    (* 'Это просто обычный комментарий' *) <<"C:eh", "c:t", "c:o", " ", "c:p", "c:r", "c:o", "c:s", "c:t", "c:o", " ", "c:o", "c:b", "c:y", "c:ch", "c:n", "c:y", "c:j", " ", "c:k", "c:o", "c:m", "c:m", "c:e", "c:n", "c:t", "c:a", "c:r", "c:i", "c:j">> }

PolicyAuthors == { <<"e", "m", "p", "e", "n", "o", "s", "o">>, (* 'Михаил Шардин' *) <<"C:m", "c:i", "c:h", "c:a", "c:i", "c:l", " ", "C:sh", "c:a", "c:r", "c:d", "c:i", "c:n">>, <<"r", "e", "a", "d", "e", "r">>, << >> }

\* score vectors (negative, neutral, positive), in hundredths
PolicyProbas == { << a, b, c >> : a \in { 0, 50, 100 }, b \in { 0, 50, 100 }, c \in { 0, 50, 100 } }

InitPolicy ==
  /\ pc = "call_policy"
  /\ args \in [ text : PolicyTexts, author : PolicyAuthors, proba : PolicyProbas ]
  /\ ret = NoValue
  /\ config \in PolicyConfigs
  /\ IdleProcess

IsPositiveComment ==
  /\ pc = "call_policy"
  /\ LET verdict == is_positive_comment(config, args.text, args.author, args.proba)
     IN  /\ ret' = verdict.result
         /\ oracle_log' = oracle_log \o verdict.oracle_calls
  /\ pc' = "returned"
  /\ UNCHANGED << args, cfgVars, dirs, loopVars, reports >>

SpecPolicy == InitPolicy /\ [][IsPositiveComment]_vars

(* Config() *)

ConfigEnvs ==
  { EnvWith(EnvWith(EnvWith(EnvWith(EmptyEnv, (* 'MIN_COMMENT_LENGTH' *) <<"M", "I", "N", "_", "C", "O", "M", "M", "E", "N", "T", "_", "L", "E", "N", "G", "T", "H">>, a),
                            (* 'POSITIVE_THRESHOLD' *) <<"P", "O", "S", "I", "T", "I", "V", "E", "_", "T", "H", "R", "E", "S", "H", "O", "L", "D">>, b), <<"M", "O", "D", "E", "L", "_", "N", "A", "M", "E">>, c),
            (* 'EXCLUDE_AUTHORS' *) <<"E", "X", "C", "L", "U", "D", "E", "_", "A", "U", "T", "H", "O", "R", "S">>, d) :
      a \in { Unset, <<"1", "0">>, <<" ", "3", "0", " ">> },
      b \in { Unset, <<"0", ".", "9">> },
      c \in { Unset, <<"m", "y", "/", "m", "o", "d", "e", "l">> },
      d \in { Unset, (* '"bob, alice,"' *) <<"\"", "b", "o", "b", ",", " ", "a", "l", "i", "c", "e", ",", "\"">> } }

ConfigFiles ==
  { NoFile,
    [ exists |-> TRUE, text |-> (* 'MIN_COMMENT_LENGTH=5\n' *) <<"M", "I", "N", "_", "C", "O", "M", "M", "E", "N", "T", "_", "L", "E", "N", "G", "T", "H", "=", "5", "\n">> ],
    [ exists |-> TRUE, text |->
        (* '# settings\nMIN_COMMENT_LENGTH = "7"\nPOSITIVE_THRESHOLD=0.5\nMODEL_NAME='other/model'\n' *) <<"#", " ", "s", "e", "t", "t", "i", "n", "g", "s", "\n", "M", "I", "N", "_", "C", "O", "M", "M", "E", "N", "T", "_", "L", "E", "N", "G", "T", "H", " ", "=", " ", "\"", "7", "\"", "\n", "P", "O", "S", "I", "T", "I", "V", "E", "_", "T", "H", "R", "E", "S", "H", "O", "L", "D", "=", "0", ".", "5", "\n", "M", "O", "D", "E", "L", "_", "N", "A", "M", "E", "=", "'", "o", "t", "h", "e", "r", "/", "m", "o", "d", "e", "l", "'", "\n">> ],
    [ exists |-> TRUE, text |->
        (* 'EXCLUDE_AUTHORS="empenoso, troll"\nno equals sign here\n\nDEVICE=cuda' *) <<"E", "X", "C", "L", "U", "D", "E", "_", "A", "U", "T", "H", "O", "R", "S", "=", "\"", "e", "m", "p", "e", "n", "o", "s", "o", ",", " ", "t", "r", "o", "l", "l", "\"", "\n", "n", "o", " ", "e", "q", "u", "a", "l", "s", " ", "s", "i", "g", "n", " ", "h", "e", "r", "e", "\n", "\n", "D", "E", "V", "I", "C", "E", "=", "c", "u", "d", "a">> ],
    [ exists |-> TRUE, text |-> (* 'MIN_COMMENT_LENGTH=many\n' *) <<"M", "I", "N", "_", "C", "O", "M", "M", "E", "N", "T", "_", "L", "E", "N", "G", "T", "H", "=", "m", "a", "n", "y", "\n">> ] }

InitConfig ==
  /\ pc = "start"
  /\ args = NoValue
  /\ ret = NoValue
  /\ oracle_log = << >>
  /\ start_environ \in ConfigEnvs
  /\ environ = start_environ
  /\ env_file \in ConfigFiles
  /\ cuda_available \in BOOLEAN
  /\ config = NoConfig
  /\ dirs = NoDirs
  /\ InitLoop

SpecConfig == InitConfig /\ [][ConfigInit]_vars

(* the saving phase of main *)

ReportUrl == (* 'https://example.com/article/' *) <<"h", "t", "t", "p", "s", ":", "/", "/", "e", "x", "a", "m", "p", "l", "e", ".", "c", "o", "m", "/", "a", "r", "t", "i", "c", "l", "e", "/">>

\* a comment text with a line of its own that is 100 '=' characters
TextWithSeparatorLine ==
  (* 'Спасибо за разбор!\n' *) <<"C:s", "c:p", "c:a", "c:s", "c:i", "c:b", "c:o", " ", "c:z", "c:a", " ", "c:r", "c:a", "c:z", "c:b", "c:o", "c:r", "!", "\n">> \o [ i \in 1..SeparatorWidth |-> "=" ] \o (* '\nОчень полезно' *) <<"\n", "C:o", "c:ch", "c:e", "c:n", "c:soft", " ", "c:p", "c:o", "c:l", "c:e", "c:z", "c:n", "c:o">>

\* a comment text of two lines
TextOfTwoLines == (* 'Спасибо!\nОчень полезная статья' *) <<"C:s", "c:p", "c:a", "c:s", "c:i", "c:b", "c:o", "!", "\n", "C:o", "c:ch", "c:e", "c:n", "c:soft", " ", "c:p", "c:o", "c:l", "c:e", "c:z", "c:n", "c:a", "c:ya", " ", "c:s", "c:t", "c:a", "c:t", "c:soft", "c:ya">>

\* comments that were accepted: text and author are not empty, the author is
\* not excluded, the text has the minimum length
ReportComments ==
  { [ id |-> JInt(5), author |-> JStr(<<"r", "e", "a", "d", "e", "r">>), text |-> JStr(PraiseText),
      datetime |-> JStr(<<"2", "0", "2", "5", "-", "1", "0", "-", "0", "1">>) ],
    [ id |-> JNull, author |-> JStr(<<"r", "e", "a", "d", "e", "r">>), text |-> JStr(PraiseText),
      datetime |-> JStr(<<"2", "0", "2", "5", "-", "1", "0", "-", "0", "1">>) ],
    [ id |-> JInt(2), author |-> JStr(<<"r", "e", "a", "d", "e", "r">>), text |-> JStr(PraiseText),
      datetime |-> JStr(<<"2", "0", "2", "5", "-", "1", "0", "-", "0", "1">>) ],
    [ id |-> JInt(2), author |-> JStr(<<"C:a", "c:n", "c:n", "c:a">>), text |-> JStr(TextWithSeparatorLine),
      datetime |-> JAbsent ],
    [ id |-> JInt(0 - 1), author |-> JStr(<<"r", "e", "a", "d", "e", "r">>), text |-> JStr(PraiseText),
      datetime |-> JStr(<<"2", "0", "2", "5", "-", "1", "0", "-", "0", "1">>) ],
    [ id |-> JAbsent, author |-> JStr(<<"C:a", "c:n", "c:n", "c:a">>), text |-> JStr(TextOfTwoLines),
      datetime |-> JStr(<<"2", "0", "2", "5", "-", "1", "0", "-", "0", "1">>) ] }

ReportLists == UNION { [ 1..n -> ReportComments ] : n \in 1..MaxReport }

\* main at the saving phase: one file of directory d was processed and the
\* comments of found were accepted, in this order
InitReport ==
  /\ pc = "save"
  /\ args = NoValue
  /\ ret = NoValue
  /\ start_environ = EmptyEnv
  /\ environ = EmptyEnv
  /\ env_file = NoFile
  /\ cuda_available = FALSE
  /\ config = DefaultConfig
  /\ \E d \in { 1, 3 }, found \in ReportLists :
       /\ dirs = [ e \in DirIds |-> [ is_dir |-> TRUE, n_json |-> IF e = d THEN 1 ELSE 0 ] ]
       /\ grouped_positive_comments =
            [ e \in { d } |-> [ i \in 1..Len(found) |-> Tagged(found[i], ReportUrl, INPUT_DIRS[d]) ] ]
       /\ accepted = [ i \in 1..Len(found) |->
                         [ directory |-> d, article_url |-> ReportUrl, comment |-> found[i] ] ]
       /\ oracle_log = [ i \in 1..Len(found) |-> found[i].text.val ]
       /\ comments_read = Len(found)
       /\ total_positive = Len(found)
  /\ total_files_to_process = 1
  /\ processed_files = 1
  /\ current = NotOpen
  /\ reports = EmptyMap
  /\ warnings = 0

SpecReport == InitReport /\ [][SaveResults]_vars

-----------------------------------------------------------------------------
(* Properties *)

IsPrefix(p, s) == Len(p) <= Len(s) /\ SubSeq(s, 1, Len(p)) = p

\* the label of the largest score, the first one on a tie
ArgmaxLabel(proba) ==
  CHOOSE l \in { "negative", "neutral", "positive" } :
    \E i \in 1..3 : /\ l = << "negative", "neutral", "positive" >>[i]
                    /\ \A j \in 1..3 : proba[j] <= proba[i]
                    /\ \A j \in 1..(i - 1) : proba[j] < proba[i]

\* the lowercased text contains a keyword of the praise list
HasPraiseKeyword(text) ==
  \E k \in 1..Len(praise_keywords) :
    \E i \in 1..Len(text) :
      /\ i + Len(praise_keywords[k]) - 1 <= Len(text)
      /\ \A j \in 1..Len(praise_keywords[k]) :
           LowerChar(text[i + j - 1]) = praise_keywords[k][j]

\* C1: is_positive_comment returns true exactly when the author is not
\* excluded, the text has at least the minimum length, and either the argmax
\* label is 'positive' with a positive score >= the threshold or the argmax
\* label is 'neutral' and the lowercased text contains a praise keyword; for
\* an excluded author it returns false whatever the text and the scores.
C1_PositiveIffPolicy ==
  pc = "returned" =>
    /\ ret <=> /\ args.author \notin config.EXCLUDE_AUTHORS
               /\ Len(args.text) >= config.MIN_COMMENT_LENGTH
               /\ \/ /\ ArgmaxLabel(args.proba) = "positive"
                     /\ args.proba[3] >= config.POSITIVE_THRESHOLD
                  \/ /\ ArgmaxLabel(args.proba) = "neutral"
                     /\ HasPraiseKeyword(args.text)
    /\ args.author \in config.EXCLUDE_AUTHORS => ~ret

\* a comment without praise keyword accepted at a positive score equal to the
\* threshold, with authors excluded
C1_Witness ==
  /\ pc = "returned"
  /\ ret
  /\ ArgmaxLabel(args.proba) = "positive"
  /\ args.proba[3] = config.POSITIVE_THRESHOLD
  /\ config.EXCLUDE_AUTHORS # {}
  /\ ~HasPraiseKeyword(args.text)

\* C2: for a text shorter than the minimum length is_positive_comment returns
\* false and the tokenizer/model are not invoked.
C2_ShortTextNoOracle ==
  (pc = "returned" /\ Len(args.text) < config.MIN_COMMENT_LENGTH)
    => (~ret /\ oracle_log = << >>)

\* a short, non-empty text of an author who is not excluded, scored positive
C2_Witness ==
  /\ pc = "returned"
  /\ args.text # << >>
  /\ Len(args.text) < config.MIN_COMMENT_LENGTH
  /\ args.author \notin config.EXCLUDE_AUTHORS
  /\ args.proba = << 0, 0, 100 >>
  /\ ~ret

\* the environment the claimed precedence yields: the lines of config.env,
\* overridden by the variables the process was started with
FileLayer == load_env_file(EmptyEnv, env_file)
LayeredEnv ==
  [ k \in DOMAIN FileLayer \cup DOMAIN start_environ |->
      IF k \in DOMAIN start_environ THEN start_environ[k] ELSE FileLayer[k] ]

\* C3: the settings follow default < config.env < environment variable: a key
\* set in the file and in the environment of the process takes the value of
\* the environment variable.
C3_EnvironmentOverridesFile ==
  pc = "configured" =>
    LET claimed == ConfigFromEnv(LayeredEnv, cuda_available)
    IN  claimed.ok => config = claimed

\* C4: a json file that is unreadable, malformed or of an unrecognized shape
\* never ends the run: no uncaught exception leaves the processing loop.
C4_FileNeverFatal == pc # "crashed"

\* the key the claim sorts by: the id, 0 for a null or missing id
ClaimKey(c) == IF c.id.kind = "int" THEN c.id.val ELSE 0

\* the accepted comments of directory d in the order they were encountered
Encountered(d) ==
  LET Of(a) == a.directory = d
      mine == SelectSeq(accepted, Of)
  IN  [ i \in 1..Len(mine) |-> Tagged(mine[i].comment, mine[i].article_url, INPUT_DIRS[d]) ]

\* s is t sorted ascending by ClaimKey and stably: the keys of s ascend, and
\* for every key the comments of that key are in s in the order they have in t
IsStableSortOf(s, t) ==
  /\ Len(s) = Len(t)
  /\ \A i, j \in 1..Len(s) : i < j => ClaimKey(s[i]) <= ClaimKey(s[j])
  /\ \A k \in { ClaimKey(t[i]) : i \in 1..Len(t) } \cup { ClaimKey(s[i]) : i \in 1..Len(s) } :
       LET HasKey(c) == ClaimKey(c) = k IN SelectSeq(s, HasKey) = SelectSeq(t, HasKey)

\* C5: the aggregation sort leaves the accepted comments of a directory in
\* ascending order of id, a null or missing id counting as 0, comments of equal
\* key in the order they were encountered.
C5_SortStableAscending ==
  pc = "done" =>
    \A d \in DOMAIN grouped_positive_comments :
      IsStableSortOf(grouped_positive_comments[d], Encountered(d))

\* ids [5, null, 2, 2], the two comments of id 2 different, come out as
\* [null, 2, 2, 5]
C5_Witness ==
  /\ pc = "done"
  /\ \E d \in DOMAIN grouped_positive_comments :
       /\ [ i \in 1..Len(accepted) |-> accepted[i].comment.id ]
            = << JInt(5), JNull, JInt(2), JInt(2) >>
       /\ accepted[3].comment # accepted[4].comment
       /\ [ i \in 1..Len(grouped_positive_comments[d]) |-> grouped_positive_comments[d][i].id ]
            = << JNull, JInt(2), JInt(2), JInt(5) >>

RECURSIVE Concat(_)
Concat(writes) == IF writes = << >> THEN << >> ELSE Head(writes) \o Concat(Tail(writes))

\* the lines of a file text: the pieces between line feeds, without the empty
\* piece after a final line feed
Lines(text) ==
  LET pieces == PySplit(text, << "\n" >>)
  IN  IF Last(pieces) = << >> THEN SubSeq(pieces, 1, Len(pieces) - 1) ELSE pieces

SeparatorLine == [ i \in 1..SeparatorWidth |-> "=" ]

IsSeparatorLine(line) == line = SeparatorLine
IsAuthorLine(line) == IsPrefix(<<"C:a", "c:v", "c:t", "c:o", "c:r", ":", " ">>, line)

\* the lines of a written value after its first line feed: lines that the
\* value brings into the file itself
EmbeddedLines(write) == Tail(Lines(write))

\* a written value brings in a line of 100 '=' or a line that starts like the
\* first line of a block
MimicsLayout(writes) ==
  \E w \in 1..Len(writes) :
    \E l \in 1..Len(EmbeddedLines(writes[w])) :
      \/ IsSeparatorLine(EmbeddedLines(writes[w])[l])
      \/ IsAuthorLine(EmbeddedLines(writes[w])[l])

\* the file has n blocks and n-1 lines of 100 '=': one between each pair of
\* consecutive blocks, none before the first block and none after the last
BlocksAndSeparators(lines, n) ==
  LET blocks == { i \in 1..Len(lines) : IsAuthorLine(lines[i]) }
      seps == { i \in 1..Len(lines) : IsSeparatorLine(lines[i]) }
  IN  /\ Cardinality(blocks) = n
      /\ Cardinality(seps) = n - 1
      /\ \A s \in seps : (\E a \in blocks : a < s) /\ (\E b \in blocks : s < b)
      /\ \A a, b \in blocks : a < b => \E s \in seps : a < s /\ s < b

\* the write calls are n blocks of four labelled writes, a separator write
\* between consecutive blocks and none after the last
WritesAreBlocks(writes, n) ==
  /\ Len(writes) = 5 * n - 1
  /\ \A i \in 0..(n - 1) :
       /\ IsPrefix(<<"C:a", "c:v", "c:t", "c:o", "c:r", ":", " ">>, writes[5 * i + 1])
       /\ IsPrefix(<<"C:d", "c:a", "c:t", "c:a", ":", " ">>, writes[5 * i + 2])
       /\ IsPrefix(<<"C:t", "c:e", "c:k", "c:s", "c:t", ":", " ">>, writes[5 * i + 3])
       /\ IsPrefix(<<"C:s", "c:s", "c:y", "c:l", "c:k", "c:a", ":", " ">>, writes[5 * i + 4])
       /\ i < n - 1 => writes[5 * i + 5] = Separator
  /\ \A w \in 1..Len(writes) : writes[w] = Separator => w % 5 = 0

\* C6 as stated: whatever the author, datetime and text of the N >= 1 accepted
\* comments of a directory, its file holds exactly N blocks and exactly N-1
\* lines of 100 '=', one between consecutive blocks and none after the last.
C6_SeparatorLinesAnyContent ==
  pc = "done" =>
    \A d \in DOMAIN reports :
      BlocksAndSeparators(Lines(Concat(reports[d])), Len(grouped_positive_comments[d]))

\* C6 as amended: the writer makes N >= 1 blocks of four labelled writes and
\* N-1 separator writes, one between consecutive blocks and none after the
\* last; the file holds exactly N blocks and exactly N-1 lines of 100 '=',
\* placed so, unless a written value itself brings in, after a line feed, a
\* line of 100 '=' or a line that starts with the author label.
C6_SeparatorsBetweenBlocks ==
  pc = "done" =>
    \A d \in DOMAIN reports :
      LET n == Len(grouped_positive_comments[d]) IN
      /\ n >= 1
      /\ WritesAreBlocks(reports[d], n)
      /\ ~MimicsLayout(reports[d]) => BlocksAndSeparators(Lines(Concat(reports[d])), n)

\* a file of three comments or more, one of them with a text of two lines
C6_Witness ==
  /\ pc = "done"
  /\ \E d \in DOMAIN reports :
       /\ Len(grouped_positive_comments[d]) >= 3
       /\ ~MimicsLayout(reports[d])
       /\ \E w \in 1..Len(reports[d]) : EmbeddedLines(reports[d][w]) # << >>
       /\ BlocksAndSeparators(Lines(Concat(reports[d])), Len(grouped_positive_comments[d]))

AcceptedIn(d) == \E i \in 1..Len(accepted) : accepted[i].directory = d

\* C7: a directory for which no comment was accepted gets no output file; when
\* no comment was accepted at all nothing is written and the total is zero.
C7_NoFileWithoutAccepted ==
  /\ \A d \in DirIds : ~AcceptedIn(d) => d \notin DOMAIN reports
  /\ (pc = "done" /\ accepted = << >>) => (reports = EmptyMap /\ total_positive = 0)

\* a finished run with a file written for one directory and none for another
\* directory whose json file was processed
C7_Witness ==
  /\ pc = "done"
  /\ \E d, e \in DirIds :
       /\ d \in DOMAIN reports
       /\ dirs[e].n_json > 0
       /\ ~AcceptedIn(e)
       /\ e \notin DOMAIN reports

\* s without its '#'-anchor
WithoutAnchor(s) == IF Find(s, << "#" >>) = 0 THEN s ELSE SubSeq(s, 1, Find(s, << "#" >>) - 1)

\* C8: for a source name containing 't-j' or 'tj' and a non-empty article_url,
\* get_comment_url returns the article_url with its '#'-anchor and its trailing
\* slash removed, followed by '/#c' and the comment id.
C8_TjUrlStripsAnchorAndSlash ==
  ( /\ pc = "returned"
    /\ \/ Contains(Lower(args.directory_name), <<"t", "-", "j">>)
       \/ Contains(Lower(args.directory_name), <<"t", "j">>)
    /\ args.article_url # << >> )
  => ret = RStrip(WithoutAnchor(args.article_url), { "/" }) \o <<"/", "#", "c">> \o args.comment_id

\* C9: for a source name containing 'habr', a deep link is returned only when
\* article_url contains 'habr.com' and '/articles/'; whenever either is missing
\* the result is the 'Unknown Habr URL' diagnostic.
C9_HabrUnknownWithoutArticles ==
  (pc = "returned" /\ Contains(Lower(args.directory_name), <<"h", "a", "b", "r">>))
  => LET marker == Contains(args.article_url, <<"h", "a", "b", "r", ".", "c", "o", "m">>)
         segment == Contains(args.article_url, <<"/", "a", "r", "t", "i", "c", "l", "e", "s", "/">>)
         diagnostic == (* 'Unknown Habr URL: ' *) <<"U", "n", "k", "n", "o", "w", "n", " ", "H", "a", "b", "r", " ", "U", "R", "L", ":", " ">>
     IN  /\ (~marker \/ ~segment) => IsPrefix(diagnostic, ret)
         /\ ~IsPrefix(diagnostic, ret) => (marker /\ segment)

\* a sequence as a bag
SeqToBag(s) ==
  [ x \in { s[i] : i \in 1..Len(s) } |-> Cardinality({ i \in 1..Len(s) : s[i] = x }) ]

\* the blocks of the file of directory d: its writes without the separators,
\* four by four
BlocksOf(d) ==
  IF d \notin DOMAIN reports THEN << >>
  ELSE LET NotSeparator(w) == w # Separator
           written == SelectSeq(reports[d], NotSeparator)
       IN  [ i \in 1..(Len(written) \div 4) |-> SubSeq(written, 4 * i - 3, 4 * i) ]

\* the blocks the accepted comments of directory d make, each with the URL of
\* its own file
ExpectedBlocks(d) ==
  LET mine == Encountered(d) IN [ i \in 1..Len(mine) |-> BlockWrites(mine[i]) ]

\* C10: after a run that completes, the blocks of every directory's file are a
\* permutation of the comments of its own files that had text and author and
\* were accepted, each with the article URL of its file, and the total of
\* positive comments is the number of blocks written.
C10_ReportsArePermutationOfAccepted ==
  pc = "done" =>
    /\ \A d \in DirIds : SeqToBag(BlocksOf(d)) = SeqToBag(ExpectedBlocks(d))
    /\ total_positive = Len(BlocksOf(1)) + Len(BlocksOf(2)) + Len(BlocksOf(3))
    /\ total_positive = Len(accepted)

\* a finished run where one directory's file has blocks from two json files of
\* different URLs and another directory has a file of its own
C10_Witness ==
  /\ pc = "done"
  /\ \E i, j \in 1..Len(accepted) :
       /\ accepted[i].directory = accepted[j].directory
       /\ accepted[i].article_url # accepted[j].article_url
       /\ Len(BlocksOf(accepted[i].directory)) = 2
       /\ BlocksOf(accepted[i].directory)[1] = BlockWrites(Tagged(accepted[j].comment,
              accepted[j].article_url, INPUT_DIRS[accepted[j].directory]))
       /\ i < j
====
